---- MODULE Spec2Model ----
(***************************************************************************)
(* Model of package uuid (github.com/pkg-id/uuid): the 16-byte UUID value, *)
(* its canonical text codec (String / Parse), the IsV4 predicate, the v4   *)
(* generator over a pluggable reader factory, and the package-level        *)
(* default generator.                                                      *)
(*                                                                         *)
(* Bytes are naturals in 0..255.  A UUID is a function 0..15 -> byte, as   *)
(* the Go array [16]byte.  A string is a sequence of bytes; Go's s[i] is   *)
(* StrAt(s, i).                                                            *)
(***************************************************************************)
EXTENDS Integers, Sequences, FiniteSets, TLC

\* ------------------------------------------------------------------ bounds

\* How many edits are applied to a seed input before the codec is called.
MaxEdits == 2

\* How many calls of New and NewUUID are started in one run.
MaxCalls == 3

\* ------------------------------------------------------- program constants

\* type UUID [16]byte
Size == 16

\* var buf [36]byte, and len(s) != 36
StrLen == 36

\* '-'
Dash == 45

\* the "invalid" entry of hexValues, 0xff
Invalid == 255

\* ------------------------------------------------------- byte arithmetic

RECURSIVE And(_, _)
\* a & b
And(a, b) ==
    IF a = 0 \/ b = 0 THEN 0
    ELSE (a % 2) * (b % 2) + 2 * And(a \div 2, b \div 2)

RECURSIVE Or(_, _)
\* a | b
Or(a, b) ==
    IF a = 0 THEN b
    ELSE IF b = 0 THEN a
    ELSE (IF a % 2 = 1 \/ b % 2 = 1 THEN 1 ELSE 0) + 2 * Or(a \div 2, b \div 2)

\* a >> k on a byte
Shr(a, k) == a \div (2 ^ k)

\* a << k on a byte: the bits shifted past bit 7 are lost
Shl(a, k) == (a * (2 ^ k)) % 256

\* ------------------------------------------------------------ UUID value

Idx == 0 .. (Size - 1)

\* var Nil UUID: the zero value
Nil == [i \in Idx |-> 0]

\* s[i] of a Go string; OutOfRange stands for the index-out-of-range panic
OutOfRange == -1

StrAt(s, i) == IF i >= 0 /\ i < Len(s) THEN s[i + 1] ELSE OutOfRange

\* ----------------------------------------------------------------- IsV4

IsV4NoVariant(uid) ==
    IF uid = Nil THEN TRUE
    ELSE IF Shr(uid[6], 4) # 4 THEN FALSE
    ELSE TRUE

IsV4(uid) ==
    IF uid = Nil THEN TRUE
    ELSE IF Shr(uid[6], 4) # 4 THEN FALSE
    ELSE IF Shr(uid[8], 6) # 2 THEN FALSE
    ELSE TRUE

\* --------------------------------------------------------------- String

\* encoding/hex's digit table, "0123456789abcdef"
hextable == <<48, 49, 50, 51, 52, 53, 54, 55, 56, 57, 97, 98, 99, 100, 101, 102>>

\* id[lo:hi] as a sequence
Slice(id, lo, hi) == [k \in 1 .. (hi - lo) |-> id[lo + k - 1]]

\* hex.Encode(dst[off:], src), with "0123456789ABCDEF" for a table
HexEncodeUpper(dst, off, src) ==
    [k \in DOMAIN dst |->
        IF k >= off /\ k < off + 2 * Len(src)
        THEN LET j == k - off
                 v == src[(j \div 2) + 1]
                 d == IF j % 2 = 0 THEN Shr(v, 4) ELSE And(v, 15)
             IN  IF d < 10 THEN 48 + d ELSE 55 + d
        ELSE dst[k]]

\* hex.Encode(dst[off:], src): dst[2j] = hextable[v>>4], dst[2j+1] = hextable[v&0x0f]
HexEncode(dst, off, src) ==
    [k \in DOMAIN dst |->
        IF k >= off /\ k < off + 2 * Len(src)
        THEN LET j == k - off
                 v == src[(j \div 2) + 1]
             IN  hextable[(IF j % 2 = 0 THEN Shr(v, 4) ELSE And(v, 15)) + 1]
        ELSE dst[k]]

\* encodeHex with the third group written one byte early
encodeHexShifted(dst, id) ==
    LET d1 == HexEncode(dst, 0, Slice(id, 0, 4))
        d2 == [d1 EXCEPT ![8] = Dash]
        d3 == HexEncode(d2, 9, Slice(id, 4, 6))
        d4 == [d3 EXCEPT ![13] = Dash]
        d5 == HexEncode(d4, 14, Slice(id, 5, 7))
        d6 == [d5 EXCEPT ![18] = Dash]
        d7 == HexEncode(d6, 19, Slice(id, 8, 10))
        d8 == [d7 EXCEPT ![23] = Dash]
    IN  HexEncode(d8, 24, Slice(id, 10, Size))

\* encodeHex(dst, id); dst is a function 0..35 -> byte
encodeHex(dst, id) ==
    LET d1 == HexEncode(dst, 0, Slice(id, 0, 4))
        d2 == [d1 EXCEPT ![8] = Dash]
        d3 == HexEncode(d2, 9, Slice(id, 4, 6))
        d4 == [d3 EXCEPT ![13] = Dash]
        d5 == HexEncode(d4, 14, Slice(id, 6, 8))
        d6 == [d5 EXCEPT ![18] = Dash]
        d7 == HexEncode(d6, 19, Slice(id, 8, 10))
        d8 == [d7 EXCEPT ![23] = Dash]
    IN  HexEncode(d8, 24, Slice(id, 10, Size))

\* (id UUID) String(): var buf [36]byte; encodeHex(buf[:], id); string(buf[:])
String(id) ==
    LET buf == [k \in 0 .. (StrLen - 1) |-> 0]
        out == encodeHex(buf, id)
    IN  [k \in 1 .. StrLen |-> out[k - 1]]

\* ---------------------------------------------------------------- Parse

\* hexValues with the upper-case row left invalid
hexValuesNoUpper ==
    [k \in 1 .. 256 |->
        IF k - 1 >= 48 /\ k - 1 <= 57 THEN k - 49
        ELSE IF k - 1 >= 97 /\ k - 1 <= 102 THEN k - 88
        ELSE 255]

\* var hexValues = [256]byte{...}; entry for byte c is hexValues[c + 1]
hexValues == <<
    255, 255, 255, 255, 255, 255, 255, 255, 255, 255, 255, 255, 255, 255, 255, 255,
    255, 255, 255, 255, 255, 255, 255, 255, 255, 255, 255, 255, 255, 255, 255, 255,
    255, 255, 255, 255, 255, 255, 255, 255, 255, 255, 255, 255, 255, 255, 255, 255,
    0, 1, 2, 3, 4, 5, 6, 7, 8, 9, 255, 255, 255, 255, 255, 255,
    255, 10, 11, 12, 13, 14, 15, 255, 255, 255, 255, 255, 255, 255, 255, 255,
    255, 255, 255, 255, 255, 255, 255, 255, 255, 255, 255, 255, 255, 255, 255, 255,
    255, 10, 11, 12, 13, 14, 15, 255, 255, 255, 255, 255, 255, 255, 255, 255,
    255, 255, 255, 255, 255, 255, 255, 255, 255, 255, 255, 255, 255, 255, 255, 255,
    255, 255, 255, 255, 255, 255, 255, 255, 255, 255, 255, 255, 255, 255, 255, 255,
    255, 255, 255, 255, 255, 255, 255, 255, 255, 255, 255, 255, 255, 255, 255, 255,
    255, 255, 255, 255, 255, 255, 255, 255, 255, 255, 255, 255, 255, 255, 255, 255,
    255, 255, 255, 255, 255, 255, 255, 255, 255, 255, 255, 255, 255, 255, 255, 255,
    255, 255, 255, 255, 255, 255, 255, 255, 255, 255, 255, 255, 255, 255, 255, 255,
    255, 255, 255, 255, 255, 255, 255, 255, 255, 255, 255, 255, 255, 255, 255, 255,
    255, 255, 255, 255, 255, 255, 255, 255, 255, 255, 255, 255, 255, 255, 255, 255,
    255, 255, 255, 255, 255, 255, 255, 255, 255, 255, 255, 255, 255, 255, 255, 255 >>

\* var hexStartedIndex = [16]int{...}; entry i is hexStartedIndex[i + 1]
hexStartedIndex == <<0, 2, 4, 6, 9, 11, 14, 16, 19, 21, 24, 26, 28, 30, 32, 34>>

\* the error values of Parse (the format strings of its three fmt.Errorf calls),
\* nil, and the run-time panic of an index out of range
NoErr == "nil"
ErrLength == "uuid: incorrect UUID length: %s"
ErrDashes == "uuid: expected dashes at positions 8, 13, 18, and 23"
ErrInvalid == "uuid: invalid UUID string: %s"
Panic == "panic: index out of range"

\* hexToByte with the two digits swapped
hexToByteSwapped(x1, x2) ==
    LET b1 == hexValues[x1 + 1]
        b2 == hexValues[x2 + 1]
    IN  [v |-> Or(Shl(b2, 4), b1), ok |-> b1 # Invalid /\ b2 # Invalid]

\* hexToByte(x1, x2): (b1 << 4) | b2, b1 != 0xff && b2 != 0xff
hexToByte(x1, x2) ==
    LET b1 == hexValues[x1 + 1]
        b2 == hexValues[x2 + 1]
    IN  [v |-> Or(Shl(b1, 4), b2), ok |-> b1 # Invalid /\ b2 # Invalid]

RECURSIVE parseFrom(_, _, _, _)
\* the loop of parse, from index i with uid decoded so far
parseFrom(s, indexes, i, uid) ==
    IF i = Size THEN [uid |-> uid, err |-> NoErr]
    ELSE LET start == indexes[i + 1]
             x1 == StrAt(s, start)
             x2 == StrAt(s, start + 1)
         IN  IF x1 = OutOfRange \/ x2 = OutOfRange
             THEN [uid |-> Nil, err |-> Panic]
             ELSE LET r == hexToByte(x1, x2)
                  IN  IF ~r.ok
                      THEN [uid |-> Nil, err |-> ErrInvalid]
                      ELSE parseFrom(s, indexes, i + 1, [uid EXCEPT ![i] = r.v])

\* parse(s, indexes): var uid UUID, then the loop
parse(s, indexes) == parseFrom(s, indexes, 0, Nil)

\* the positions Parse compares with '-', in the order of the || chain
DashPositions == <<8, 13, 18, 23>>

RECURSIVE dashes(_, _)
\* s[8] != '-' || s[13] != '-' || s[18] != '-' || s[23] != '-', left to right:
\* "missing" when the chain is true, "ok" when false, "panic" when an index
\* it evaluates is out of range
dashes(s, k) ==
    IF k > Len(DashPositions) THEN "ok"
    ELSE LET c == StrAt(s, DashPositions[k])
         IN  IF c = OutOfRange THEN "panic"
             ELSE IF c # Dash THEN "missing"
             ELSE dashes(s, k + 1)

\* Parse without its length check
ParseNoLength(s) ==
    LET d == dashes(s, 1)
    IN  IF d = "panic" THEN [uid |-> Nil, err |-> Panic]
        ELSE IF d = "missing" THEN [uid |-> Nil, err |-> ErrDashes]
        ELSE parse(s, hexStartedIndex)

\* Parse(s)
Parse(s) ==
    IF Len(s) # StrLen THEN [uid |-> Nil, err |-> ErrLength]
    ELSE LET d == dashes(s, 1)
         IN  IF d = "panic" THEN [uid |-> Nil, err |-> Panic]
             ELSE IF d = "missing" THEN [uid |-> Nil, err |-> ErrDashes]
             ELSE parse(s, hexStartedIndex)

\* ------------------------------------------------------------ generator

\* the error values of a reader, and of io.ReadFull
EOF == "EOF"
ErrUnexpectedEOF == "unexpected EOF"
ErrSource == "read failed"

\* the bytes StaticReader serves: 0x00, 0x01, ..., 0x0f
StaticBytes == [i \in Idx |-> i]

\* 01 23 45 67 89 ab cd ef fe dc ba 98 76 54 32 10: every hex digit, not version 4
AllDigits == [i \in Idx |-> IF i < 8 THEN 1 + 34 * i ELSE 254 - 34 * (i - 8)]

\* the goroutines that call the generators
Callers == {"g1", "g2"}

\* where a reader lives: the one made for a goroutine's current call, or the
\* package-level crypto/rand.Reader
RandSlot == "rand"
Slots == Callers \cup {RandSlot}

\* the 16-byte values the random source may deliver in one call
EntropySamples == {Nil, [i \in Idx |-> 255], AllDigits, StaticBytes}

\* how many bytes one Read of a caller-supplied reader may deliver
ChunkSizes == {5, 16}

\* a reader that is not there
NoReader == [kind |-> "none", pos |-> 0]

\* StaticReader handing out the reader of the goroutine's previous call
StaticReaderCached(c, h) ==
    IF h[c].kind = "bytes" THEN [ref |-> c, heap |-> h]
    ELSE [ref |-> c, heap |-> [h EXCEPT ![c] = [kind |-> "bytes", pos |-> 0]]]

\* StaticReader(): bytes.NewReader over the sixteen StaticBytes, a new reader each call
StaticReader(c, h) ==
    [ref |-> c, heap |-> [h EXCEPT ![c] = [kind |-> "bytes", pos |-> 0]]]

\* ErrorsReader(): &eofReader{}
ErrorsReader(c, h) ==
    [ref |-> c, heap |-> [h EXCEPT ![c] = [kind |-> "eof", pos |-> 0]]]

\* SecureReader(): rand.Reader, the same reader each call
SecureReader(c, h) == [ref |-> RandSlot, heap |-> h]

\* a caller's ReaderFactory whose readers deliver some bytes or fail on each Read
ChunkReader(c, h) ==
    [ref |-> c, heap |-> [h EXCEPT ![c] = [kind |-> "chunk", pos |-> 0]]]

\* a caller's ReaderFactory whose readers have nothing to deliver: Read returns 0, nil
IdleReader(c, h) ==
    [ref |-> c, heap |-> [h EXCEPT ![c] = [kind |-> "idle", pos |-> 0]]]

\* the ReaderFactory values a generator is built with
Factories == {"StaticReader", "ErrorsReader", "SecureReader", "ChunkReader", "IdleReader"}

\* v.factory()
CallFactory(f, c, h) ==
    CASE f = "StaticReader" -> StaticReader(c, h)
      [] f = "ErrorsReader" -> ErrorsReader(c, h)
      [] f = "SecureReader" -> SecureReader(c, h)
      [] f = "ChunkReader" -> ChunkReader(c, h)
      [] f = "IdleReader" -> IdleReader(c, h)

Min(a, b) == IF a < b THEN a ELSE b

\* the bytes src[from], ..., src[from + k - 1]
Bytes(src, from, k) == [j \in 1 .. k |-> src[from + j - 1]]

\* r.Read(p) with len(p) = len and p = buf[at:]: the outcomes a reader may give,
\* each the count, the error, the bytes written and the reader afterwards
Read(r, at, len) ==
    CASE r.kind = "bytes" ->
            \* (*bytes.Reader).Read: io.EOF at the end, else copy and advance
            IF r.pos >= Size
            THEN {[nn |-> 0, err |-> EOF, data |-> << >>, reader |-> r]}
            ELSE LET k == Min(len, Size - r.pos)
                 IN  {[nn |-> k, err |-> NoErr, data |-> Bytes(StaticBytes, r.pos, k),
                       reader |-> [r EXCEPT !.pos = r.pos + k]]}
      [] r.kind = "eof" ->
            \* (*eofReader).Read: return 0, io.EOF
            {[nn |-> 0, err |-> EOF, data |-> << >>, reader |-> r]}
      [] r.kind = "rand" ->
            \* crypto/rand: fills p, or fails
            {[nn |-> len, err |-> NoErr, data |-> Bytes(e, at, len), reader |-> r] :
                e \in EntropySamples}
            \cup {[nn |-> 0, err |-> ErrSource, data |-> << >>, reader |-> r]}
      [] r.kind = "chunk" ->
            \* any io.Reader that makes progress: 0 <= nn <= len(p), any error,
            \* but never 0, nil
            {[nn |-> k, err |-> e, data |-> Bytes(AllDigits, at, k), reader |-> r] :
                k \in {Min(ch, len) : ch \in ChunkSizes} \cup {0},
                e \in {NoErr, EOF, ErrSource}}
            \ {[nn |-> 0, err |-> NoErr, data |-> << >>, reader |-> r]}
      [] r.kind = "idle" ->
            {[nn |-> 0, err |-> NoErr, data |-> << >>, reader |-> r]}

\* io.ReadFull's loop reading on after the reader reported an error
ReadFullRetries(n, err) == n < Size

\* io.ReadFull(reader, uid[:]): for n < min && err == nil { nn, err = r.Read(buf[n:]); n += nn }
ReadFullLoops(n, err) == n < Size /\ err = NoErr

\* io.ReadFull's result: if n >= min { err = nil } else if n > 0 && err == EOF
\* { err = ErrUnexpectedEOF }
ReadFullErr(n, err) ==
    IF n >= Size THEN NoErr
    ELSE IF n > 0 /\ err = EOF THEN ErrUnexpectedEOF
    ELSE err

\* fillUUID(reader), given what io.ReadFull left: n bytes in uid and the error err
fillUUID(n, err, uid) ==
    LET e == ReadFullErr(n, err)
    IN  IF e # NoErr THEN [uid |-> Nil, err |-> e]
        ELSE [uid |-> uid, err |-> NoErr]

\* NewUUID stamping without clearing the bits it replaces
NewUUIDNoMask(r) ==
    IF r.err # NoErr THEN [uid |-> Nil, err |-> r.err]
    ELSE [uid |-> [r.uid EXCEPT ![6] = Or(r.uid[6], 64), ![8] = Or(r.uid[8], 128)],
          err |-> r.err]

\* NewUUID stamping whatever fillUUID returned, without looking at err
NewUUIDNoCheck(r) ==
    [uid |-> [r.uid EXCEPT ![6] = Or(And(r.uid[6], 15), 64),
                           ![8] = Or(And(r.uid[8], 63), 128)],
     err |-> r.err]

\* (v *V4Generator) NewUUID(), given r = fillUUID(v.factory())
NewUUID(r) ==
    IF r.err # NoErr THEN [uid |-> Nil, err |-> r.err]
    ELSE [uid |-> [r.uid EXCEPT ![6] = Or(And(r.uid[6], 15), 64),
                                ![8] = Or(And(r.uid[8], 63), 128)],
          err |-> r.err]

\* NewV4Generator(factory): &V4Generator{factory: factory}
NewV4Generator(factory) == [factory |-> factory]

\* var defaultGenerator Generator, before it is assigned: the nil interface
NoGenerator == [factory |-> "nil"]

\* init() whose Do does not run the function
initNoAssign(once, gen) == [once |-> TRUE, gen |-> gen, assigned |-> 0]

\* init(): defaultInitiator.Do(func() { defaultGenerator = NewV4Generator(SecureReader) })
init(once, gen) ==
    IF once THEN [once |-> once, gen |-> gen, assigned |-> 0]
    ELSE [once |-> TRUE, gen |-> NewV4Generator("SecureReader"), assigned |-> 1]

\* ---------------------------------------------------------------- state

VARIABLES
    \* a caller of the codec
    input,      \* "uuid": the caller holds a UUID; "text": the caller holds a string
    uid,        \* the UUID held by the caller
    s,          \* the string held by the caller
    edits,      \* edits applied to the held input so far
    str,        \* the last call of String: its receiver and result
    parsed,     \* the last call of Parse: its argument and results
    v4,         \* the last call of IsV4: its argument and result
    \* the package
    phase,              \* "pkginit" while the package is initialised, then "running"
    defaultGenerator,   \* var defaultGenerator Generator
    defaultInitiator,   \* var defaultInitiator sync.Once: whether Do has run
    assigns,            \* how many times defaultGenerator has been assigned
    v4gen,              \* the generator a caller built with NewV4Generator
    heap,               \* the readers, by slot
    started,            \* calls of New and NewUUID started so far
    \* per goroutine: its current call
    pc,         \* "idle", "fill" (in io.ReadFull), "done" (returned), "panic"
    via,        \* the entry point of the call: "New" or "NewUUID"
    gen,        \* the generator the call runs on
    made,       \* how many times the call has invoked the factory
    rd,         \* the slot of the reader the factory returned
    buf,        \* fillUUID's uid, as read so far
    n,          \* io.ReadFull's n
    err,        \* io.ReadFull's err: the error of the last Read
    polls,      \* the number of Reads the call has made, modulo 2
    late,       \* whether the call made a Read after the reader reported an error
    ret         \* what the call returned

codecVars == <<input, uid, s, edits, str, parsed, v4>>

genVars == <<phase, defaultGenerator, defaultInitiator, assigns, v4gen, heap, started,
             pc, via, gen, made, rd, buf, n, err, polls, late, ret>>

vars == <<codecVars, genVars>>

\* ------------------------------------------------- codec: inputs and calls

\* decimal digits as ASCII
Dec(ds) == [k \in 1 .. Len(ds) |-> 48 + ds[k]]

\* n copies of the byte c
Repeat(c, count) == [k \in 1 .. count |-> c]

\* const StaticUUID = "00010203-0405-4607-8809-0a0b0c0d0e0f"
StaticUUID == <<
    48, 48, 48, 49, 48, 50, 48, 51, 45,
    48, 52, 48, 53, 45,
    52, 54, 48, 55, 45,
    56, 56, 48, 57, 45,
    48, 97, 48, 98, 48, 99, 48, 100, 48, 101, 48, 102 >>

\* the inputs of TestParse_Errors, in the order of its table
ParseErrorInputs == <<
    << >>,
    Dec(<<1,2,3,4,5,6,7,8>>) \o <<Dash>> \o Dec(<<1,2,3,4>>) \o <<Dash>>
        \o Dec(<<1,2,3,4>>) \o <<Dash>> \o Dec(<<1,2,3,4>>) \o <<Dash>>
        \o Dec(<<1,2,3,4,5,6,7,8,9,0>>),
    Dec(<<1,2,3,4,5,6,7,8>>) \o <<Dash>> \o Dec(<<1,2,3,4>>) \o <<Dash>>
        \o Dec(<<1,2,3,4>>) \o <<Dash>> \o Dec(<<1,2,3,4>>) \o <<Dash>>
        \o Dec(<<1,2,3,4,5,6,7,8,9,0,1,2,3>>),
    Dec(<<1,2,3,4,5,6,7,8>>) \o <<Dash>> \o Dec(<<1,2,3,4>>) \o <<Dash>>
        \o Dec(<<1,2,3,4>>) \o <<Dash>> \o Dec(<<1,2,3,4>>) \o <<Dash>>
        \o Dec(<<1,2,3,4,5,6,7,8,9,0,1>>) \o <<103>>,
    Repeat(Dash, 36),
    Dec(<<1,2,3,4,5,6,7,8,1,2,3,4>>) \o <<Dash>> \o Dec(<<1,2,3,4>>) \o <<Dash>>
        \o Dec(<<1,2,3,4>>) \o <<Dash>> \o Dec(<<1,2,3,4,5,6,7,8,9,0,1,2,0>>),
    <<Dash>> \o Dec(<<1,2,3,4,5,6,7,8>>) \o <<Dash>> \o Dec(<<1,2,3,4>>) \o <<Dash>>
        \o Dec(<<1,2,3,4>>) \o <<Dash>> \o Dec(<<1,2,3,4,1,2,3,4,5,6,7,8,9,0,1,2,0>>),
    Repeat(97, 36) >>

\* "ABCDEF01-2345-6789-abcd-efAbCdEf09Fa": well formed, both cases, not version 4
MixedCase == <<
    65, 66, 67, 68, 69, 70, 48, 49, 45,
    50, 51, 52, 53, 45,
    54, 55, 56, 57, 45,
    97, 98, 99, 100, 45,
    101, 102, 65, 98, 67, 100, 69, 102, 48, 57, 70, 97 >>

\* the strings a caller starts from
SeedStrings ==
    {ParseErrorInputs[k] : k \in 1 .. Len(ParseErrorInputs)} \cup {MixedCase, StaticUUID}

\* the UUIDs a caller starts from
SeedUUIDs ==
    { Nil,
      StaticBytes,
      [StaticBytes EXCEPT ![6] = 70, ![8] = 136],
      AllDigits,
      [i \in Idx |-> 255] }

\* the bytes an edit writes into a UUID: the boundaries of the version nibble
\* (0x30, 0x40, 0x4f) and of the variant bits (0x70, 0x80, 0xbf), 0x00 and 0xff
ByteSamples == {0, 48, 64, 79, 112, 128, 191, 255}

\* the indexes an edit writes at: the ends of the five groups, and bytes 6 and 8
EditIdx == {0, 5, 6, 8, 15}

\* the bytes an edit writes into a string: '-', hex digits of both cases and the
\* bytes next to the ranges of hex digits ('/', ':', 'G', 'g'), and 0xff
CharSamples == {45, 47, 48, 58, 70, 71, 102, 103, 255}

\* the positions an edit writes at: both ends and two separators
EditPos == {0, 8, 23, 35}

NoCall == ~str.done /\ ~parsed.done /\ ~v4.done

\* the caller overwrites one byte of the UUID it holds
SetByte(i, b) ==
    /\ input = "uuid" /\ NoCall /\ edits < MaxEdits
    /\ uid[i] # b
    /\ uid' = [uid EXCEPT ![i] = b]
    /\ edits' = edits + 1
    /\ UNCHANGED <<input, s, str, parsed, v4>>
    /\ UNCHANGED genVars

\* the caller overwrites one byte of the string it holds
SetChar(k, c) ==
    /\ input = "text" /\ NoCall /\ edits < MaxEdits
    /\ k < Len(s) /\ s[k + 1] # c
    /\ s' = [s EXCEPT ![k + 1] = c]
    /\ edits' = edits + 1
    /\ UNCHANGED <<input, uid, str, parsed, v4>>
    /\ UNCHANGED genVars

\* the caller appends a byte to the string it holds
AppendChar(c) ==
    /\ input = "text" /\ NoCall /\ edits < MaxEdits
    /\ s' = Append(s, c)
    /\ edits' = edits + 1
    /\ UNCHANGED <<input, uid, str, parsed, v4>>
    /\ UNCHANGED genVars

\* the caller drops the last byte of the string it holds
DropChar ==
    /\ input = "text" /\ NoCall /\ edits < MaxEdits
    /\ Len(s) > 0
    /\ s' = SubSeq(s, 1, Len(s) - 1)
    /\ edits' = edits + 1
    /\ UNCHANGED <<input, uid, str, parsed, v4>>
    /\ UNCHANGED genVars

\* u.String(), on the held UUID or on the UUID Parse returned
CallString ==
    /\ ~str.done
    /\ input = "uuid" \/ parsed.done
    /\ LET u == IF input = "uuid" THEN uid ELSE parsed.uid
       IN  str' = [done |-> TRUE, of |-> u, out |-> String(u)]
    /\ UNCHANGED <<input, uid, s, edits, parsed, v4>>
    /\ UNCHANGED genVars

\* Parse(x), on the held string or on the string String returned
CallParse ==
    /\ ~parsed.done
    /\ input = "text" \/ str.done
    /\ LET x == IF input = "text" THEN s ELSE str.out
           r == Parse(x)
       IN  parsed' = [done |-> TRUE, in |-> x, uid |-> r.uid, err |-> r.err]
    /\ UNCHANGED <<input, uid, s, edits, str, v4>>
    /\ UNCHANGED genVars

\* IsV4(u), on the held UUID or on the UUID Parse returned
CallIsV4 ==
    /\ ~v4.done
    /\ input = "uuid" \/ parsed.done
    /\ LET u == IF input = "uuid" THEN uid ELSE parsed.uid
       IN  v4' = [done |-> TRUE, of |-> u, res |-> IsV4(u)]
    /\ UNCHANGED <<input, uid, s, edits, str, parsed>>
    /\ UNCHANGED genVars

CodecNext ==
    \/ \E i \in EditIdx, b \in ByteSamples : SetByte(i, b)
    \/ \E k \in EditPos, c \in CharSamples : SetChar(k, c)
    \/ \E c \in {48, 103} : AppendChar(c)
    \/ DropChar
    \/ CallString
    \/ CallParse
    \/ CallIsV4

\* --------------------------------------------- generator: the calls' steps

NoReturn == [done |-> FALSE, uid |-> Nil, err |-> NoErr]

GenInit ==
    /\ phase = "pkginit"
    /\ defaultGenerator = NoGenerator
    /\ defaultInitiator = FALSE
    /\ assigns = 0
    /\ v4gen \in {NewV4Generator(f) : f \in Factories}
    /\ heap = [x \in Slots |-> IF x = RandSlot THEN [kind |-> "rand", pos |-> 0] ELSE NoReader]
    /\ started = 0
    /\ pc = [c \in Callers |-> "idle"]
    /\ via = [c \in Callers |-> "none"]
    /\ gen = [c \in Callers |-> NoGenerator]
    /\ made = [c \in Callers |-> 0]
    /\ rd = [c \in Callers |-> c]
    /\ buf = [c \in Callers |-> Nil]
    /\ n = [c \in Callers |-> 0]
    /\ err = [c \in Callers |-> NoErr]
    /\ polls = [c \in Callers |-> 0]
    /\ late = [c \in Callers |-> FALSE]
    /\ ret = [c \in Callers |-> NoReturn]

\* the Go runtime runs the package's init() once, before main and before any
\* importer's code
PkgInit ==
    /\ phase = "pkginit"
    /\ LET r == init(defaultInitiator, defaultGenerator)
       IN  /\ defaultInitiator' = r.once
           /\ defaultGenerator' = r.gen
           /\ assigns' = assigns + r.assigned
    /\ phase' = "running"
    /\ UNCHANGED <<v4gen, heap, started, pc, via, gen, made, rd, buf, n, err, polls, late, ret>>
    /\ UNCHANGED codecVars

\* the call enters g.NewUUID: uid, err := fillUUID(v.factory()), up to the
\* first Read of io.ReadFull
Enter(c, entry, g) ==
    LET f == CallFactory(g.factory, c, heap)
    IN  /\ heap' = f.heap
        /\ rd' = [rd EXCEPT ![c] = f.ref]
        /\ pc' = [pc EXCEPT ![c] = "fill"]
        /\ via' = [via EXCEPT ![c] = entry]
        /\ gen' = [gen EXCEPT ![c] = g]
        /\ made' = [made EXCEPT ![c] = 1]
        /\ buf' = [buf EXCEPT ![c] = Nil]
        /\ n' = [n EXCEPT ![c] = 0]
        /\ err' = [err EXCEPT ![c] = NoErr]
        /\ polls' = [polls EXCEPT ![c] = 0]
        /\ late' = [late EXCEPT ![c] = FALSE]
        /\ ret' = [ret EXCEPT ![c] = NoReturn]

\* New(): defaultGenerator.NewUUID(); a nil defaultGenerator panics
New(c) ==
    /\ phase = "running"
    /\ pc[c] \in {"idle", "done"}
    /\ started < MaxCalls
    /\ started' = started + 1
    /\ IF defaultGenerator = NoGenerator
       THEN /\ pc' = [pc EXCEPT ![c] = "panic"]
            /\ via' = [via EXCEPT ![c] = "New"]
            /\ gen' = [gen EXCEPT ![c] = NoGenerator]
            /\ ret' = [ret EXCEPT ![c] = NoReturn]
            /\ UNCHANGED <<heap, made, rd, buf, n, err, polls, late>>
       ELSE Enter(c, "New", defaultGenerator)
    /\ UNCHANGED <<phase, defaultGenerator, defaultInitiator, assigns, v4gen>>
    /\ UNCHANGED codecVars

\* v4.NewUUID() on the generator the caller built
CallNewUUID(c) ==
    /\ phase = "running"
    /\ pc[c] \in {"idle", "done"}
    /\ started < MaxCalls
    /\ started' = started + 1
    /\ Enter(c, "NewUUID", v4gen)
    /\ UNCHANGED <<phase, defaultGenerator, defaultInitiator, assigns, v4gen>>
    /\ UNCHANGED codecVars

\* one turn of io.ReadFull's loop: nn, err = r.Read(buf[n:]); n += nn
ReadStep(c) ==
    /\ pc[c] = "fill"
    /\ ReadFullLoops(n[c], err[c])
    /\ \E o \in Read(heap[rd[c]], n[c], Size - n[c]) :
          /\ heap' = [heap EXCEPT ![rd[c]] = o.reader]
          /\ buf' = [buf EXCEPT ![c] =
                        [i \in Idx |-> IF i >= n[c] /\ i < n[c] + o.nn
                                       THEN o.data[i - n[c] + 1] ELSE buf[c][i]]]
          /\ n' = [n EXCEPT ![c] = n[c] + o.nn]
          /\ err' = [err EXCEPT ![c] = o.err]
    /\ polls' = [polls EXCEPT ![c] = (polls[c] + 1) % 2]
    /\ late' = [late EXCEPT ![c] = late[c] \/ err[c] # NoErr]
    /\ UNCHANGED <<phase, defaultGenerator, defaultInitiator, assigns, v4gen, started,
                   pc, via, gen, made, rd, ret>>
    /\ UNCHANGED codecVars

\* io.ReadFull returns, then fillUUID, then NewUUID stamps and returns
Return(c) ==
    /\ pc[c] = "fill"
    /\ ~ReadFullLoops(n[c], err[c])
    /\ LET r == NewUUID(fillUUID(n[c], err[c], buf[c]))
       IN  ret' = [ret EXCEPT ![c] = [done |-> TRUE, uid |-> r.uid, err |-> r.err]]
    /\ pc' = [pc EXCEPT ![c] = "done"]
    /\ UNCHANGED <<phase, defaultGenerator, defaultInitiator, assigns, v4gen, heap, started,
                   via, gen, made, rd, buf, n, err, polls, late>>
    /\ UNCHANGED codecVars

GenNext ==
    \/ PkgInit
    \/ \E c \in Callers : New(c)
    \/ \E c \in Callers : CallNewUUID(c)
    \/ \E c \in Callers : ReadStep(c)
    \/ \E c \in Callers : Return(c)

\* ------------------------------------------------------- specifications

\* the package as loaded, with no goroutine calling a generator
GenIdle == GenInit /\ v4gen = NewV4Generator("StaticReader")

\* the inputs of the codec's callers
CodecInit ==
    /\ GenIdle
    /\ edits = 0
    /\ str = [done |-> FALSE, of |-> Nil, out |-> << >>]
    /\ parsed = [done |-> FALSE, in |-> << >>, uid |-> Nil, err |-> NoErr]
    /\ v4 = [done |-> FALSE, of |-> Nil, res |-> FALSE]
    /\ \/ input = "uuid" /\ uid \in SeedUUIDs /\ s = << >>
       \/ input = "text" /\ uid = Nil /\ s \in SeedStrings

\* the codec's callers alone
CodecSpec == CodecInit /\ [][CodecNext]_vars

\* no caller of the codec
CodecIdle ==
    /\ input = "uuid" /\ uid = Nil /\ s = << >> /\ edits = 0
    /\ str = [done |-> FALSE, of |-> Nil, out |-> << >>]
    /\ parsed = [done |-> FALSE, in |-> << >>, uid |-> Nil, err |-> NoErr]
    /\ v4 = [done |-> FALSE, of |-> Nil, res |-> FALSE]

Init == GenInit /\ CodecIdle

Next == GenNext

\* the package and the goroutines calling its generators
Spec == Init /\ [][Next]_vars

\* the same, each goroutine that is inside a call being scheduled again
FairSpec ==
    /\ Init
    /\ [][Next]_vars
    /\ \A c \in Callers : WF_vars(ReadStep(c)) /\ WF_vars(Return(c))

\* ---------------------------------------- vocabulary of the codec's claims

\* the positions of the separators in the canonical form
SepPos == {8, 13, 18, 23}

\* 0-9, a-f, A-F
IsHexDigit(c) == (c >= 48 /\ c <= 57) \/ (c >= 65 /\ c <= 70) \/ (c >= 97 /\ c <= 102)

\* 0-9, a-f
IsLowerHexDigit(c) == (c >= 48 /\ c <= 57) \/ (c >= 97 /\ c <= 102)

\* the value of a hex digit
HexVal(c) == IF c <= 57 THEN c - 48 ELSE IF c <= 70 THEN c - 55 ELSE c - 87

\* the lower-case hex digit of a value 0..15
LowerHexChar(d) == IF d < 10 THEN 48 + d ELSE 87 + d

\* an upper-case hex digit lower-cased, any other byte unchanged
ToLower(c) == IF c >= 65 /\ c <= 70 THEN c + 32 ELSE c

\* the position of the first digit of byte i: bytes 0-3, 4-5, 6-7, 8-9 and
\* 10-15 go to positions 0-7, 9-12, 14-17, 19-22 and 24-35
GroupPos(i) ==
    IF i < 4 THEN 2 * i
    ELSE IF i < 6 THEN 9 + 2 * (i - 4)
    ELSE IF i < 8 THEN 14 + 2 * (i - 6)
    ELSE IF i < 10 THEN 19 + 2 * (i - 8)
    ELSE 24 + 2 * (i - 10)

\* the fixed offsets of the sixteen digit pairs
PairOffsets == <<0, 2, 4, 6, 9, 11, 14, 16, 19, 21, 24, 26, 28, 30, 32, 34>>

\* 36 bytes, '-' at the separator positions, a hex digit of either case elsewhere
WellFormed(x) ==
    /\ Len(x) = 36
    /\ \A k \in 0 .. 35 : IF k \in SepPos THEN x[k + 1] = 45 ELSE IsHexDigit(x[k + 1])

\* ------------------------------------------------------ claims on the codec

\* C1 (round trip): for every UUID u, Nil and values that are not version 4
\* included, Parse(u.String()) returns u and no error.
C1_RoundTrip ==
    (input = "uuid" /\ str.done /\ parsed.done) =>
        /\ str.of = uid
        /\ parsed.in = str.out
        /\ parsed.uid = uid
        /\ parsed.err = NoErr

\* a UUID of version 3, set by an edit, has been encoded and parsed back
C1_Witness ==
    /\ input = "uuid" /\ str.done /\ parsed.done
    /\ uid[6] = 48 /\ ~IsV4(uid) /\ uid # Nil
    /\ parsed.uid = uid

\* C4 (parse failure path): Parse checks the length, then the separators, then
\* the hex digits, and reports the first check that fails by one of three
\* distinct errors; every failure returns Nil, and no input panics.
C4_ParseFailure ==
    parsed.done =>
        LET x == parsed.in
            lenOK == Len(x) = 36
            sepOK == \A p \in SepPos : x[p + 1] = 45
            hexOK == \A k \in (0 .. 35) \ SepPos : IsHexDigit(x[k + 1])
        IN  /\ ~lenOK => parsed.err = ErrLength
            /\ (lenOK /\ ~sepOK) => parsed.err = ErrDashes
            /\ (lenOK /\ sepOK /\ ~hexOK) => parsed.err = ErrInvalid
            /\ parsed.err # NoErr => parsed.uid = Nil
            /\ parsed.err # Panic
            /\ Cardinality({NoErr, ErrLength, ErrDashes, ErrInvalid}) = 4

\* a 36-byte string that misses a separator and also holds a byte that is no
\* hex digit has been parsed, and the missing separator was reported
C4_Witness ==
    /\ input = "text" /\ parsed.done
    /\ Len(parsed.in) = 36
    /\ parsed.in[9] # 45
    /\ \E k \in (0 .. 35) \ SepPos : ~IsHexDigit(parsed.in[k + 1])
    /\ parsed.err = ErrDashes /\ parsed.uid = Nil

\* C5 (format stability): u.String() is 36 bytes, '-' at 8, 13, 18 and 23, a
\* lower-case hex digit elsewhere, the bytes encoded in order into the groups
\* 0-7, 9-12, 14-17, 19-22 and 24-35.
C5_Format ==
    str.done =>
        /\ Len(str.out) = 36
        /\ \A k \in 0 .. 35 :
              IF k \in SepPos THEN str.out[k + 1] = 45
              ELSE IsLowerHexDigit(str.out[k + 1])
        /\ \A i \in Idx :
              /\ str.out[GroupPos(i) + 1] = LowerHexChar(str.of[i] \div 16)
              /\ str.out[GroupPos(i) + 2] = LowerHexChar(str.of[i] % 16)

\* a UUID whose byte 6 is 0xbf and byte 15 is 0xff has been encoded
C5_Witness ==
    /\ input = "uuid" /\ str.done
    /\ str.of[6] = 191 /\ str.of[15] = 255
    /\ str.out[15] = 98 /\ str.out[16] = 102
    /\ str.out[35] = 102 /\ str.out[36] = 102

\* C6 (IsV4): IsV4(u) is true exactly when u is Nil, or byte 6 has high nibble
\* 0100 and byte 8 has top bits 10; so Nil is accepted, version nibble 3 is
\* rejected, and version nibble 4 with byte 8 = 0x70 is rejected.
C6_IsV4 ==
    v4.done =>
        /\ v4.res <=>
              \/ \A i \in Idx : v4.of[i] = 0
              \/ /\ v4.of[6] >= 64 /\ v4.of[6] <= 79
                 /\ v4.of[8] >= 128 /\ v4.of[8] <= 191
        /\ (\A i \in Idx : v4.of[i] = 0) => v4.res
        /\ (v4.of[6] >= 48 /\ v4.of[6] <= 63) => ~v4.res
        /\ (v4.of[6] >= 64 /\ v4.of[6] <= 79 /\ v4.of[8] = 112) => ~v4.res

\* IsV4 has rejected the UUID of TestIsV4_Errors: zero but byte 6 = 0x40, byte 8 = 0x70
C6_Witness ==
    /\ v4.done /\ ~v4.res
    /\ v4.of = [Nil EXCEPT ![6] = 64, ![8] = 112]

\* C8 (decode acceptance): a well-formed string of either case is parsed with
\* no error whatever its version and variant bits, byte i being
\* 16 * value(s[k_i]) + value(s[k_i + 1]); Parse(s).String() is s lower-cased;
\* the lookup table gives each hex digit its value and 0xff to any other byte.
C8_DecodeAcceptance ==
    (parsed.done /\ WellFormed(parsed.in)) =>
        /\ parsed.err = NoErr
        /\ \A i \in Idx :
              parsed.uid[i] = 16 * HexVal(parsed.in[PairOffsets[i + 1] + 1])
                              + HexVal(parsed.in[PairOffsets[i + 1] + 2])
        /\ str.done => str.out = [k \in 1 .. 36 |-> ToLower(parsed.in[k])]
        /\ \A c \in 0 .. 255 :
              hexValues[c + 1] = IF IsHexDigit(c) THEN HexVal(c) ELSE 255

\* a well-formed string with upper-case digits, not version 4, has been parsed
\* and the result encoded again
C8_Witness ==
    /\ input = "text" /\ parsed.done /\ str.done
    /\ WellFormed(parsed.in)
    /\ \E k \in 1 .. 36 : parsed.in[k] >= 65 /\ parsed.in[k] <= 70
    /\ ~IsV4(parsed.uid)
    /\ str.out # parsed.in

\* -------------------------------------------------- claims on the generator

\* the UUID every call on a generator over StaticReader returns
StaticResult == [StaticBytes EXCEPT ![6] = 70, ![8] = 136]

\* C2 (generator compliance): when NewUUID succeeds on the 16 bytes r the
\* reader delivered, the result u satisfies IsV4, u[6] = (r[6] & 0x0f) | 0x40,
\* u[8] = (r[8] & 0x3f) | 0x80 and u[i] = r[i] elsewhere; the stamping does so
\* for every value of the two bytes.
C2_GeneratorCompliance ==
    \A c \in Callers :
        (pc[c] = "done" /\ ret[c].err = NoErr) =>
            /\ n[c] = 16
            /\ IsV4(ret[c].uid)
            /\ ret[c].uid[6] = 64 + (buf[c][6] % 16)
            /\ ret[c].uid[8] = 128 + (buf[c][8] % 64)
            /\ \A i \in Idx \ {6, 8} : ret[c].uid[i] = buf[c][i]
            /\ \A b \in 0 .. 255 :
                  LET r == [buf[c] EXCEPT ![6] = b, ![8] = 255 - b]
                      u == NewUUID([uid |-> r, err |-> NoErr]).uid
                  IN  /\ u[6] = 64 + (b % 16)
                      /\ u[8] = 128 + ((255 - b) % 64)
                      /\ \A i \in Idx \ {6, 8} : u[i] = r[i]
                      /\ IsV4(u)

\* a call has succeeded on sixteen bytes 0xff, none of them version 4
C2_Witness ==
    \E c \in Callers :
        /\ pc[c] = "done" /\ ret[c].err = NoErr
        /\ buf[c] = [i \in Idx |-> 255]
        /\ ret[c].uid[6] = 79 /\ ret[c].uid[8] = 191

\* C3 as stated (failure propagation): when the reader fails before 16 bytes
\* were delivered, NewUUID returns the reader's own error and Nil.
C3_Original ==
    \A c \in Callers :
        pc[c] = "done" =>
            /\ ret[c].err # NoErr => ret[c].uid = Nil
            /\ (err[c] # NoErr /\ n[c] < 16) =>
                  /\ ret[c].uid = Nil
                  /\ ret[c].err = err[c]

\* C3 as amended: when the reader fails before 16 bytes were delivered,
\* NewUUID returns Nil and an error: the reader's own, except that io.EOF
\* after 1 to 15 bytes is returned as io.ErrUnexpectedEOF; no call returns a
\* UUID other than Nil together with an error.
C3_FailurePropagation ==
    \A c \in Callers :
        pc[c] = "done" =>
            /\ ret[c].err # NoErr => ret[c].uid = Nil
            /\ (err[c] # NoErr /\ n[c] < 16) =>
                  /\ ret[c].uid = Nil
                  /\ ret[c].err # NoErr
                  /\ ret[c].err = IF err[c] = EOF /\ n[c] > 0
                                  THEN ErrUnexpectedEOF ELSE err[c]

\* a call has returned after its reader delivered five bytes and then io.EOF
C3_Witness ==
    \E c \in Callers :
        /\ pc[c] = "done"
        /\ n[c] = 5 /\ err[c] = EOF
        /\ buf[c] # Nil
        /\ ret[c].uid = Nil /\ ret[c].err = ErrUnexpectedEOF

\* C7 (determinism): on a generator over StaticReader every call, after
\* earlier calls and beside concurrent ones, finds the sixteen bytes unread in
\* its reader, succeeds, and returns the UUID whose String() is StaticUUID.
C7_Determinism ==
    v4gen = NewV4Generator("StaticReader") =>
        \A c \in Callers :
            via[c] = "NewUUID" =>
                /\ pc[c] = "fill" => (heap[rd[c]].pos = n[c] /\ err[c] = NoErr)
                /\ pc[c] = "done" =>
                      /\ ret[c].err = NoErr
                      /\ ret[c].uid = StaticResult
                      /\ String(ret[c].uid) = StaticUUID

\* three calls on the generator over StaticReader have been started, by two
\* goroutines, and both goroutines hold StaticUUID
C7_Witness ==
    /\ v4gen = NewV4Generator("StaticReader")
    /\ started >= 3
    /\ \A c \in Callers :
          /\ via[c] = "NewUUID" /\ pc[c] = "done"
          /\ String(ret[c].uid) = StaticUUID

\* C9 (default generator): defaultGenerator is assigned once, by init's
\* Once, before any call of New runs; nothing changes it afterwards; every
\* call of New runs on that generator and none finds it unset.
C9_DefaultGenerator ==
    /\ [](phase = "pkginit" => \A c \in Callers : pc[c] = "idle" /\ via[c] = "none")
    /\ [](phase = "running" =>
            /\ defaultGenerator = NewV4Generator("SecureReader")
            /\ defaultInitiator
            /\ assigns = 1)
    /\ [](\A c \in Callers :
            via[c] = "New" =>
                /\ pc[c] # "panic"
                /\ gen[c] = NewV4Generator("SecureReader")
                /\ rd[c] = RandSlot)
    /\ [][defaultGenerator # NoGenerator => defaultGenerator' = defaultGenerator]_vars
    /\ [][assigns' >= assigns /\ (defaultGenerator' # defaultGenerator => assigns' = 1)]_vars

\* two goroutines are inside New at the same time
C9_Witness ==
    \A c \in Callers :
        /\ via[c] = "New" /\ pc[c] = "fill"
        /\ gen[c] = defaultGenerator

\* what C10 says of every state: a call has invoked its factory once, has read
\* no more than 16 bytes, has made no Read after the reader reported an error,
\* and once the read is complete or has failed its next step is the return
NoRetries ==
    \A c \in Callers :
        /\ pc[c] \in {"fill", "done"} => made[c] = 1
        /\ n[c] <= 16
        /\ ~late[c]
        /\ (pc[c] = "fill" /\ (err[c] # NoErr \/ n[c] = 16)) =>
              (~ENABLED ReadStep(c) /\ ENABLED Return(c))
        /\ pc[c] = "done" => ret[c].done

\* C10 as stated (no retries): NoRetries, and every call terminates, whatever
\* the reader.
C10_Original ==
    /\ []NoRetries
    /\ \A c \in Callers : (pc[c] = "fill") ~> (pc[c] = "done")

\* C10 as amended: NoRetries, and every call terminates whose reader returns
\* at least one byte or an error from each Read.
C10_NoRetries ==
    /\ []NoRetries
    /\ \A c \in Callers :
          (pc[c] = "fill" /\ heap[rd[c]].kind # "idle") ~> (pc[c] = "done")

\* a call has returned the error of a reader that failed after five bytes,
\* having read no further
C10_Witness ==
    \E c \in Callers :
        /\ pc[c] = "done"
        /\ n[c] = 5 /\ err[c] = ErrSource /\ ~late[c]
        /\ ret[c].err = ErrSource

====
